---- MODULE Spec2Model ----
(***************************************************************************)
(* LDAP rebind registry of apr-util (ldap/apr_ldap_rebind.c).              *)
(*                                                                         *)
(* The registry is a process-wide singly linked list (xref_head) of        *)
(* apr_ldap_rebind_entry records, guarded by the mutex apr_ldap_xref_lock. *)
(* Every function is modelled statement by statement: a thread's position  *)
(* in the function is th[t].pc, its C locals are fields of th[t].          *)
(* Entries are pool allocated: the memory of an entry stays readable until *)
(* its pool is destroyed; a read of an entry of a destroyed pool is        *)
(* undefined behaviour and is modelled as a choice between reading the     *)
(* stale bytes and a fault of the process.                                 *)
(*                                                                         *)
(* What the library calls but does not define is modelled by its contract: *)
(* the mutex (one holder at a time), the cleanup list of a pool            *)
(* (register prepends, kill removes the first match, destruction takes     *)
(* each cleanup off the list and then calls it) and the SDK (a rebind      *)
(* event may arrive for any handle the callback was installed on). A pool  *)
(* is destroyed by its owner while no add on it is running. Except in      *)
(* SpecInit the mutex has been created once, before any other call.        *)
(*                                                                         *)
(* hs, misuse and overlap record what the callers have done; no action of  *)
(* the library reads them.                                                 *)
(*                                                                         *)
(* Six specifications share the actions:                                   *)
(*   Spec      two threads call into the library at any time               *)
(*   SpecFair  Spec under fair scheduling                                  *)
(*   SpecList  one thread adds and removes, with room for one entry more   *)
(*   SpecSeq   one thread, two pools, every kind of credentials            *)
(*   SpecOwn   two threads, each with a handle and a pool of its own       *)
(*   SpecInit  the calls of apr_ldap_rebind_init from process start        *)
(***************************************************************************)
EXTENDS Integers, Sequences, FiniteSets, TLC

\* ------------------------------------------------------------- bounds

\* The entries that can be in the list or in a local pointer at one time.
MaxEntries == 2

Threads == {"t1", "t2"}
\* The memory has room for one entry more: what a list with an entry ahead of
\* and an entry behind the one removed needs.
MaxSlots == MaxEntries + 1
EntryIds == 1 .. MaxSlots
Handles == {"ld1", "ld2"}
Pools == {"p1", "p2"}

\* A NULL char pointer, a NULL pool, a NULL LDAP handle.
NullStr == "NULL"
\* What a read of memory that holds no string gives.
Junk == "junk"
NoPool == "nopool"
NoLd == "nold"

\* The (bindDN, bindPW) pairs callers pass to apr_ldap_rebind_add.
Creds == { <<"cn=a", "pwa">>, <<"cn=b", NullStr>>, <<NullStr, "pwc">>, <<NullStr, NullStr>> }

\* The SDK the library was built for: APR_HAS_TIVOLI_LDAPSDK,
\* APR_HAS_OPENLDAP_LDAPSDK, or neither.
Variants == {"tivoli", "openldap", "none"}

VARIABLES
    variant,     \* the build's SDK variant, fixed for a behaviour
    actors,      \* the threads that call into the library, fixed for a behaviour
    scopes,      \* per thread, the pools it uses, fixed for a behaviour
    handles,     \* per thread, the handles it uses, fixed for a behaviour
    creds,       \* the (bindDN, bindPW) pairs passed to add, fixed for a behaviour
    slots,       \* how many entries the pools have room for, fixed for a behaviour
    lock,        \* apr_ldap_xref_lock: 0 is NULL, else the mutex object
    nCreated,    \* how many mutex objects apr_thread_mutex_create has made
    holders,     \* the threads between apr_thread_mutex_lock and unlock
    xref_head,   \* 0 is NULL, else an entry
    entry,       \* the memory of the entries: pool, index, bindDN, bindPW, next
    poolState,   \* "live", "destroying" (cleanups running), "dead" (freed)
    cleanups,    \* per pool, the registered cleanups (data = ld), newest first
    callback,    \* the handles ldap_set_rebind_proc has been called on
    crashed,     \* the process has faulted
    th,          \* per thread: pc and the locals of the running function
    hs,          \* history, per handle: what its callers have done with it
    misuse,      \* history: add was called for a handle still registered
    overlap      \* history: init was called while another init was running

\* What no action changes.
env == <<variant, actors, scopes, handles, creds, slots>>

vars == <<variant, actors, scopes, handles, creds, slots, lock, nCreated, holders,
          xref_head, entry, poolState, cleanups, callback, crashed, th, hs, misuse, overlap>>

\* struct apr_ldap_rebind_entry, zero filled by apr_pcalloc.
apr_ldap_rebind_entry == [pool |-> NoPool, index |-> NoLd, bindDN |-> NullStr,
                          bindPW |-> NullStr, next |-> 0]

\* No snapshot of the registry is held.
Void == <<>>

\* A thread outside the library. Besides pc, the arguments and the C locals
\* a thread carries: caller (who called remove or lookup), snap (the registry
\* as it was when the call began, Void once another thread has changed it),
\* gone (the handle of this rebind event had been removed when the event
\* began and no add of it has begun since), quiet (no add of the handle of
\* this remove was running when it was called and none has begun since).
Idle == [pc |-> "idle", pool |-> NoPool, ld |-> NoLd, bindDN |-> NullStr,
         bindPW |-> NullStr, new_xref |-> 0, tmp_xref |-> 0, prev |-> 0,
         match |-> 0, retcode |-> "APR_SUCCESS", caller |-> "top",
         snap |-> Void, gone |-> FALSE, quiet |-> FALSE]

\* The entries reachable from p by next links, in order (at most MaxEntries
\* of them: a cycle is cut there).
RECURSIVE Chain(_, _, _)
Chain(mem, p, fuel) ==
    IF p = 0 \/ fuel = 0 THEN <<>> ELSE <<p>> \o Chain(mem, mem[p].next, fuel - 1)

List == Chain(entry, xref_head, MaxSlots)

InList(e) == \E i \in 1 .. Len(List) : List[i] = e

\* What the list holds, without the links.
ListView ==
    [i \in 1 .. Len(List) |->
        <<entry[List[i]].pool, entry[List[i]].index,
          entry[List[i]].bindDN, entry[List[i]].bindPW>>]

Registry == <<ListView, cleanups>>

\* Memory of entry e has been given back: its pool is destroyed.
Freed(e) == e # 0 /\ entry[e].pool \in Pools /\ poolState[entry[e].pool] = "dead"

\* The entries some pointer of the program leads to: from the head, from a
\* local of a running function, and from the next links of those.
RECURSIVE Reach(_, _, _)
Reach(mem, R, fuel) ==
    IF fuel = 0 THEN R
    ELSE Reach(mem, R \cup ({mem[e].next : e \in R} \ {0}), fuel - 1)

Roots(head, thr) ==
    ({head} \cup UNION {{thr[t].new_xref, thr[t].tmp_xref, thr[t].prev, thr[t].match} :
                            t \in Threads}) \ {0}

\* Memory no pointer leads to can never be read again: it is forgotten, which
\* keeps the model finite while entries come and go.
Scrub(mem, head, thr) ==
    [e \in EntryIds |->
        IF e \in Reach(mem, Roots(head, thr), MaxSlots) THEN mem[e]
        ELSE apr_ldap_rebind_entry]

\* The slots apr_pcalloc can hand out.
FreeSlots == {e \in 1 .. slots : entry[e].pool = NoPool}

NewSlot == CHOOSE e \in FreeSlots : \A f \in FreeSlots : e <= f

Running == ~crashed

At(t, l) == th[t].pc = l

\* Thread t mutates the registry: the snapshots other threads hold no longer
\* describe what their own call has done.
Touch(thr, t) ==
    [u \in Threads |-> IF u # t THEN [thr[u] EXCEPT !.snap = Void] ELSE thr[u]]

Goto(t, l) == th' = [th EXCEPT ![t].pc = l]

Set(t, r) == th' = [th EXCEPT ![t] = r]

\* ------------------------------------------------ history of the handles

HsFree == [st |-> "free", pool |-> NoPool, bindDN |-> NullStr, bindPW |-> NullStr]

HsSt(s) == [HsFree EXCEPT !.st = s]

\* Some thread other than t is inside add(.., h, ..).
AddRunning(t, h) ==
    \E u \in Threads \ {t} :
        /\ th[u].ld = h
        /\ \/ th[u].pc \in {"add_lock", "add_next", "add_head", "add_unlock",
                            "add_setcb", "add_register"}
           \/ th[u].caller = "add"

\* remove(h) is called by the application, or by line 103 of add.
HsRemove(h) ==
    hs' = [hs EXCEPT ![h] = IF @.st \in {"free", "torn"} THEN HsFree
                            ELSE IF @.st = "adding" THEN @ ELSE HsSt("removing")]

\* remove(h) has returned to thread t: h is free again, or, when the remove
\* was the cleanup of the pool it was registered in, torn down. A remove that
\* ran while an add of h was running on another thread is ordered before
\* that add and changes nothing here.
HsRemoved(t, h) ==
    IF th[t].caller # "add" /\ ~th[t].quiet
    THEN hs' = hs
    ELSE hs' = [hs EXCEPT ![h] = IF AddRunning(t, h) THEN HsSt("adding")
                                 ELSE IF @.st = "tearing" /\ th[t].caller = "cleanup"
                                      THEN HsSt("torn") ELSE HsFree]

\* ------------------------------------------------ external collaborators

\* apr_thread_mutex_lock(apr_ldap_xref_lock) returns when no thread holds it.
Acquire(t) == holders = {} /\ holders' = holders \cup {t}

\* apr_thread_mutex_unlock(apr_ldap_xref_lock).
Release(t) == holders' = holders \ {t}

\* apr_pool_cleanup_register(p, data, ...): the new cleanup goes first.
CleanupRegister(cl, ld) == <<ld>> \o cl

\* apr_pool_cleanup_kill(p, data, ...): drops the first cleanup registered
\* for data, if there is one.
CleanupKill(cl, ld) ==
    IF \E i \in 1 .. Len(cl) : cl[i] = ld
    THEN LET i == CHOOSE k \in 1 .. Len(cl) :
                      cl[k] = ld /\ \A j \in 1 .. k - 1 : cl[j] # ld
         IN  SubSeq(cl, 1, i - 1) \o SubSeq(cl, i + 1, Len(cl))
    ELSE cl

\* apr_ldap_rebind_set_callback(ld): one of three bodies, chosen by the build.
apr_ldap_rebind_set_callback == IF variant = "none" THEN "APR_ENOTIMPL" ELSE "APR_SUCCESS"

\* ------------------------------------------------ apr_ldap_rebind_add

\* Lines 77-84 with the secret left out.
NewEntryNoSecret(p, ld, dn, pw) ==
    [pool |-> p, index |-> ld, bindDN |-> dn, bindPW |-> NullStr, next |-> 0]

\* Lines 77-84: pool, index and the copies of the two strings.
NewEntry(p, ld, dn, pw) ==
    [pool |-> p, index |-> ld, bindDN |-> dn, bindPW |-> pw, next |-> 0]

\* Line 75, taken when apr_pcalloc returns NULL: line 98. Nothing has been
\* stored, the arguments are not used.
add_enomem(t) ==
    /\ Running /\ At(t, "idle") /\ t \in actors
    /\ \E p \in scopes[t] : poolState[p] = "live"
    /\ Set(t, [Idle EXCEPT !.pc = "add_ret", !.retcode = "APR_ENOMEM", !.snap = Registry])
    /\ UNCHANGED <<env, lock, nCreated, holders, xref_head, entry,
                   poolState, cleanups, callback, crashed, hs, misuse, overlap>>

\* Lines 75-84: the entry is allocated from pool and filled in; the strings
\* are copied into the pool, a NULL string stays NULL.
add_new_xref(t) ==
    /\ Running /\ At(t, "idle") /\ t \in actors
    /\ FreeSlots # {}
    /\ \E p \in scopes[t], ld \in handles[t], c \in creds :
          /\ poolState[p] = "live"
          /\ entry' = [entry EXCEPT ![NewSlot] = NewEntry(p, ld, c[1], c[2])]
          /\ th' = [u \in Threads |->
                      IF u = t
                      THEN [Idle EXCEPT !.pc = "add_lock", !.pool = p, !.ld = ld,
                                        !.bindDN = c[1], !.bindPW = c[2],
                                        !.new_xref = NewSlot, !.snap = Registry]
                      ELSE IF th[u].ld = ld
                           THEN [th[u] EXCEPT !.gone = FALSE, !.quiet = FALSE]
                      ELSE th[u]]
          /\ misuse' = (misuse \/ hs[ld].st \notin {"free", "torn"})
          /\ hs' = [hs EXCEPT ![ld] = HsSt("adding")]
    /\ UNCHANGED <<env, lock, nCreated, holders, xref_head,
                   poolState, cleanups, callback, crashed, overlap>>

\* Lines 80, 83: apr_pstrdup of a non-NULL string when the pool cannot
\* allocate. apr_pstrdup returns NULL for a NULL argument only; on exhaustion
\* the pool's abort function ends the process, or the copy faults.
add_pstrdup_fault(t) ==
    /\ Running /\ At(t, "idle") /\ t \in actors
    /\ \E p \in scopes[t] : poolState[p] = "live"
    /\ \E c \in creds : c[1] # NullStr \/ c[2] # NullStr
    /\ crashed' = TRUE
    /\ Set(t, [Idle EXCEPT !.pc = "add_strdup", !.snap = Registry])
    /\ UNCHANGED <<env, lock, nCreated, holders, xref_head, entry,
                   poolState, cleanups, callback, hs, misuse, overlap>>

\* Line 87.
add_lock(t) ==
    /\ Running /\ At(t, "add_lock")
    /\ Acquire(t)
    /\ Goto(t, "add_next")
    /\ UNCHANGED <<env, lock, nCreated, xref_head, entry,
                   poolState, cleanups, callback, crashed, hs, misuse, overlap>>

\* Line 90: new_xref->next = xref_head.
add_next(t) ==
    /\ Running /\ At(t, "add_next")
    /\ entry' = [entry EXCEPT ![th[t].new_xref].next = xref_head]
    /\ Goto(t, "add_head")
    /\ UNCHANGED <<env, lock, nCreated, holders, xref_head,
                   poolState, cleanups, callback, crashed, hs, misuse, overlap>>

\* Line 91 left out: the entry is filled in and never linked to the head.
add_head_missing(t) ==
    /\ Running /\ At(t, "add_head")
    /\ Goto(t, "add_unlock")
    /\ UNCHANGED <<env, lock, nCreated, holders, xref_head, entry,
                   poolState, cleanups, callback, crashed, hs, misuse, overlap>>

\* Line 91: xref_head = new_xref.
add_head(t) ==
    /\ Running /\ At(t, "add_head")
    /\ xref_head' = th[t].new_xref
    /\ th' = Touch([th EXCEPT ![t].pc = "add_unlock"], t)
    /\ UNCHANGED <<env, lock, nCreated, holders, entry,
                   poolState, cleanups, callback, crashed, hs, misuse, overlap>>

\* Line 94.
add_unlock(t) ==
    /\ Running /\ At(t, "add_unlock")
    /\ Release(t)
    /\ Goto(t, "add_setcb")
    /\ UNCHANGED <<env, lock, nCreated, xref_head, entry,
                   poolState, cleanups, callback, crashed, hs, misuse, overlap>>

\* Lines 101-105 without line 103: the error is returned, the entry stays.
add_set_callback_no_rollback(t) ==
    /\ Running /\ At(t, "add_setcb")
    /\ IF apr_ldap_rebind_set_callback = "APR_SUCCESS"
       THEN /\ callback' = callback \cup {th[t].ld}
            /\ Goto(t, "add_register")
       ELSE /\ callback' = callback
            /\ Set(t, [th[t] EXCEPT !.pc = "add_ret",
                                    !.retcode = apr_ldap_rebind_set_callback])
    /\ UNCHANGED <<env, lock, nCreated, holders, xref_head, entry,
                   poolState, cleanups, crashed, hs, misuse, overlap>>

\* Lines 101-105: the callback is installed; when that fails the entry is
\* taken out again by apr_ldap_rebind_remove(ld) and the error returned.
add_set_callback(t) ==
    /\ Running /\ At(t, "add_setcb")
    /\ IF apr_ldap_rebind_set_callback = "APR_SUCCESS"
       THEN /\ callback' = callback \cup {th[t].ld}
            /\ Goto(t, "add_register")
       ELSE /\ callback' = callback
            /\ Set(t, [th[t] EXCEPT !.pc = "rm_lock", !.caller = "add",
                                    !.retcode = apr_ldap_rebind_set_callback])
    /\ UNCHANGED <<env, lock, nCreated, holders, xref_head, entry,
                   poolState, cleanups, crashed, hs, misuse, overlap>>

\* Lines 107-111: the cleanup is registered on pool, add returns APR_SUCCESS.
add_register(t) ==
    /\ Running /\ At(t, "add_register")
    /\ cleanups' = [cleanups EXCEPT ![th[t].pool] = CleanupRegister(@, th[t].ld)]
    /\ th' = Touch([th EXCEPT ![t] = Idle], t)
    /\ hs' = [hs EXCEPT ![th[t].ld] =
                 IF @.st = "adding"
                 THEN [st |-> "reg", pool |-> th[t].pool,
                       bindDN |-> th[t].bindDN, bindPW |-> th[t].bindPW]
                 ELSE @]
    /\ entry' = Scrub(entry, xref_head, th')
    /\ UNCHANGED <<env, lock, nCreated, holders, xref_head,
                   poolState, callback, crashed, misuse, overlap>>

\* Lines 98, 104: the caller has the error that add returns.
add_return(t) ==
    /\ Running /\ At(t, "add_ret")
    /\ Set(t, Idle)
    /\ entry' = Scrub(entry, xref_head, th')
    /\ UNCHANGED <<env, lock, nCreated, holders, xref_head,
                   poolState, cleanups, callback, crashed, hs, misuse, overlap>>

apr_ldap_rebind_add(t) ==
    \/ add_enomem(t) \/ add_new_xref(t) \/ add_pstrdup_fault(t) \/ add_lock(t)
    \/ add_next(t) \/ add_head(t) \/ add_unlock(t) \/ add_set_callback(t)
    \/ add_register(t) \/ add_return(t)

\* ------------------------------------------------ apr_ldap_rebind_remove

\* A caller invokes apr_ldap_rebind_remove(ld), for a handle of its choice.
rm_call(t) ==
    /\ Running /\ At(t, "idle") /\ t \in actors
    /\ \E ld \in handles[t] :
          /\ Set(t, [Idle EXCEPT !.pc = "rm_lock", !.ld = ld, !.caller = "top",
                                 !.snap = Registry, !.quiet = ~AddRunning(t, ld)])
          /\ HsRemove(ld)
    /\ UNCHANGED <<env, lock, nCreated, holders, xref_head, entry,
                   poolState, cleanups, callback, crashed, misuse, overlap>>

\* remove without line 120.
rm_lock_missing(t) ==
    /\ Running /\ At(t, "rm_lock")
    /\ Goto(t, "rm_head")
    /\ UNCHANGED <<env, lock, nCreated, holders, xref_head, entry,
                   poolState, cleanups, callback, crashed, hs, misuse, overlap>>

\* Line 120.
rm_lock(t) ==
    /\ Running /\ At(t, "rm_lock")
    /\ Acquire(t)
    /\ Goto(t, "rm_head")
    /\ UNCHANGED <<env, lock, nCreated, xref_head, entry,
                   poolState, cleanups, callback, crashed, hs, misuse, overlap>>

\* Lines 117, 122: prev = NULL, tmp_xref = xref_head.
rm_head(t) ==
    /\ Running /\ At(t, "rm_head")
    /\ Set(t, [th[t] EXCEPT !.pc = "rm_scan", !.tmp_xref = xref_head, !.prev = 0])
    /\ UNCHANGED <<env, lock, nCreated, holders, xref_head, entry,
                   poolState, cleanups, callback, crashed, hs, misuse, overlap>>

\* Lines 124-129 with the comparison of index and ld left out: the scan stops
\* at the first entry.
rm_scan_first(t) ==
    /\ Running /\ At(t, "rm_scan")
    /\ IF th[t].tmp_xref # 0 THEN Goto(t, "rm_unlink") ELSE Goto(t, "rm_unlock")
    /\ UNCHANGED <<env, lock, nCreated, holders, xref_head, entry,
                   poolState, cleanups, callback, crashed, hs, misuse, overlap>>

\* Lines 124-129: one test of the while condition and, when it holds, one
\* pass through the body; when it fails, the branch on tmp_xref.
rm_scan(t) ==
    /\ Running /\ At(t, "rm_scan")
    /\ LET tmp == th[t].tmp_xref IN
         IF tmp # 0 /\ entry[tmp].index # th[t].ld
         THEN Set(t, [th[t] EXCEPT !.prev = tmp, !.tmp_xref = entry[tmp].next])
         ELSE IF tmp # 0
              THEN Goto(t, "rm_unlink")
              ELSE Goto(t, "rm_unlock")
    /\ UNCHANGED <<env, lock, nCreated, holders, xref_head, entry,
                   poolState, cleanups, callback, crashed, hs, misuse, overlap>>

\* Lines 130-135 with NULL stored in place of tmp_xref->next: the entries
\* behind the one removed go with it.
rm_unlink_rest(t) ==
    /\ Running /\ At(t, "rm_unlink")
    /\ LET tmp == th[t].tmp_xref IN
         IF tmp = xref_head
         THEN /\ xref_head' = 0
              /\ entry' = entry
         ELSE /\ entry' = [entry EXCEPT ![th[t].prev].next = 0]
              /\ xref_head' = xref_head
    /\ th' = Touch([th EXCEPT ![t].pc = "rm_kill"], t)
    /\ UNCHANGED <<env, lock, nCreated, holders,
                   poolState, cleanups, callback, crashed, hs, misuse, overlap>>

\* Lines 130-135: the entry is unlinked, from the head or from prev.
rm_unlink(t) ==
    /\ Running /\ At(t, "rm_unlink")
    /\ LET tmp == th[t].tmp_xref IN
         IF tmp = xref_head
         THEN /\ xref_head' = entry[xref_head].next
              /\ entry' = entry
         ELSE /\ entry' = [entry EXCEPT ![th[t].prev].next = entry[tmp].next]
              /\ xref_head' = xref_head
    /\ th' = Touch([th EXCEPT ![t].pc = "rm_kill"], t)
    /\ UNCHANGED <<env, lock, nCreated, holders,
                   poolState, cleanups, callback, crashed, hs, misuse, overlap>>

\* Lines 140-141: apr_pool_cleanup_kill(tmp_xref->pool, tmp_xref->index, ...).
rm_kill(t) ==
    /\ Running /\ At(t, "rm_kill")
    /\ LET e == entry[th[t].tmp_xref] IN
         cleanups' = [cleanups EXCEPT ![e.pool] = CleanupKill(@, e.index)]
    /\ th' = Touch([th EXCEPT ![t].pc = "rm_unlock"], t)
    /\ UNCHANGED <<env, lock, nCreated, holders, xref_head, entry,
                   poolState, callback, crashed, hs, misuse, overlap>>

\* Line 145.
rm_unlock(t) ==
    /\ Running /\ At(t, "rm_unlock")
    /\ Release(t)
    /\ Goto(t, "rm_ret")
    /\ UNCHANGED <<env, lock, nCreated, xref_head, entry,
                   poolState, cleanups, callback, crashed, hs, misuse, overlap>>

\* Line 147: remove returns APR_SUCCESS, to its caller: the application,
\* line 103 of add (which returns retcode, line 104), or the cleanup helper
\* (lines 150-155) run by the destruction of a pool.
rm_return(t) ==
    /\ Running /\ At(t, "rm_ret")
    /\ CASE th[t].caller = "top" -> Set(t, Idle)
         [] th[t].caller = "add" ->
                Set(t, [th[t] EXCEPT !.pc = "add_ret", !.caller = "top",
                                     !.tmp_xref = 0, !.prev = 0])
         [] th[t].caller = "cleanup" ->
                Set(t, [th[t] EXCEPT !.pc = "destroy_run", !.tmp_xref = 0,
                                     !.prev = 0, !.ld = NoLd, !.quiet = FALSE])
    /\ HsRemoved(t, th[t].ld)
    /\ entry' = Scrub(entry, xref_head, th')
    /\ UNCHANGED <<env, lock, nCreated, holders, xref_head,
                   poolState, cleanups, callback, crashed, misuse, overlap>>

apr_ldap_rebind_remove(t) ==
    \/ rm_call(t) \/ rm_lock(t) \/ rm_head(t) \/ rm_scan(t) \/ rm_unlink(t)
    \/ rm_kill(t) \/ rm_unlock(t) \/ rm_return(t)

\* Lines 150-155: apr_ldap_rebind_remove_helper(data) is the cleanup that
\* add registers; it calls apr_ldap_rebind_remove(ld).
apr_ldap_rebind_remove_helper(t, ld) ==
    /\ th' = Touch([th EXCEPT ![t].pc = "rm_lock", ![t].ld = ld, ![t].caller = "cleanup",
                               ![t].quiet = ~AddRunning(t, ld)], t)
    /\ hs' = [hs EXCEPT ![ld] = IF @.st \in {"reg", "removing"} THEN HsSt("removing")
                                ELSE @]

\* ------------------------------------------------ destruction of a pool

\* The owner of pool p destroys it (apr_pool_destroy). The pool is the
\* caller's: no add on p is running and none starts afterwards.
destroy_call(t) ==
    /\ Running /\ At(t, "idle") /\ t \in actors
    /\ \E p \in scopes[t] :
          /\ poolState[p] = "live"
          /\ \A u \in Threads : th[u].pool # p
          /\ poolState' = [poolState EXCEPT ![p] = "destroying"]
          /\ Set(t, [Idle EXCEPT !.pc = "destroy_run", !.pool = p])
          /\ hs' = [h \in Handles |->
                      IF hs[h].st = "reg" /\ hs[h].pool = p
                      THEN HsSt("tearing") ELSE hs[h]]
    /\ UNCHANGED <<env, lock, nCreated, holders, xref_head, entry,
                   cleanups, callback, crashed, misuse, overlap>>

\* The pool runs its cleanups, newest first: each is taken off the list and
\* then called. With no cleanup left the memory of the pool is freed.
destroy_run(t) ==
    /\ Running /\ At(t, "destroy_run")
    /\ LET p == th[t].pool IN
         IF cleanups[p] # <<>>
         THEN /\ cleanups' = [cleanups EXCEPT ![p] = Tail(@)]
              /\ apr_ldap_rebind_remove_helper(t, Head(cleanups[p]))
              /\ poolState' = poolState
         ELSE /\ poolState' = [poolState EXCEPT ![p] = "dead"]
              /\ Set(t, Idle)
              /\ cleanups' = cleanups
              /\ hs' = hs
    /\ UNCHANGED <<env, lock, nCreated, holders, xref_head, entry,
                   callback, crashed, misuse, overlap>>

apr_pool_destroy(t) == destroy_call(t) \/ destroy_run(t)

\* ------------------------------------------------ apr_ldap_rebind_lookup
\* lookup is static: its only callers are the two LDAP_rebindproc bodies.

\* Line 163.
lk_lock(t) ==
    /\ Running /\ At(t, "lk_lock")
    /\ Acquire(t)
    /\ Goto(t, "lk_head")
    /\ UNCHANGED <<env, lock, nCreated, xref_head, entry,
                   poolState, cleanups, callback, crashed, hs, misuse, overlap>>

\* Lines 160, 165: match = NULL, tmp_xref = xref_head.
lk_head(t) ==
    /\ Running /\ At(t, "lk_head")
    /\ Set(t, [th[t] EXCEPT !.pc = "lk_scan", !.tmp_xref = xref_head, !.match = 0])
    /\ UNCHANGED <<env, lock, nCreated, holders, xref_head, entry,
                   poolState, cleanups, callback, crashed, hs, misuse, overlap>>

\* Lines 167-175 without the else of line 172: the scan goes on after a match,
\* and the last entry of the handle is the one returned.
lk_scan_last(t) ==
    /\ Running /\ At(t, "lk_scan")
    /\ LET tmp == th[t].tmp_xref IN
         IF tmp # 0
         THEN IF entry[tmp].index = th[t].ld
              THEN Set(t, [th[t] EXCEPT !.match = tmp, !.tmp_xref = entry[tmp].next])
              ELSE Set(t, [th[t] EXCEPT !.tmp_xref = entry[tmp].next])
         ELSE Goto(t, "lk_unlock")
    /\ UNCHANGED <<env, lock, nCreated, holders, xref_head, entry,
                   poolState, cleanups, callback, crashed, hs, misuse, overlap>>

\* Lines 167-175: one test of the while condition and one pass through the body.
lk_scan(t) ==
    /\ Running /\ At(t, "lk_scan")
    /\ LET tmp == th[t].tmp_xref IN
         IF tmp # 0
         THEN IF entry[tmp].index = th[t].ld
              THEN Set(t, [th[t] EXCEPT !.match = tmp, !.tmp_xref = 0])
              ELSE Set(t, [th[t] EXCEPT !.tmp_xref = entry[tmp].next])
         ELSE Goto(t, "lk_unlock")
    /\ UNCHANGED <<env, lock, nCreated, holders, xref_head, entry,
                   poolState, cleanups, callback, crashed, hs, misuse, overlap>>

\* Lines 178, 181: the mutex is released and match returned.
lk_unlock(t) ==
    /\ Running /\ At(t, "lk_unlock")
    /\ Release(t)
    /\ Goto(t, "lk_ret")
    /\ UNCHANGED <<env, lock, nCreated, xref_head, entry,
                   poolState, cleanups, callback, crashed, hs, misuse, overlap>>

apr_ldap_rebind_lookup(t) == lk_lock(t) \/ lk_head(t) \/ lk_scan(t) \/ lk_unlock(t)

\* ------------------------------------------------ LDAP_rebindproc

\* The SDK calls the rebind procedure of a handle it was installed on
\* (Tivoli: with freeit = 0), on the thread that uses the handle: lines 201, 244.
rebind_call(t) ==
    /\ Running /\ At(t, "idle") /\ t \in actors
    /\ \E ld \in callback \cap handles[t] :
          Set(t, [Idle EXCEPT !.pc = "lk_lock", !.ld = ld, !.caller = "rebind",
                              !.snap = Registry,
                              !.gone = (hs[ld].st \in {"free", "torn"})])
    /\ UNCHANGED <<env, lock, nCreated, holders, xref_head, entry,
                   poolState, cleanups, callback, crashed, hs, misuse, overlap>>

\* The credentials the procedure takes from my_conn: lines 203-209 hand back
\* copies of them (Tivoli), lines 246-251 pass them to ldap_bind_s (OpenLDAP).
Dispatch(my_conn) ==
    IF my_conn # 0 /\ entry[my_conn].bindDN # NullStr
    THEN <<entry[my_conn].bindDN, entry[my_conn].bindPW>>
    ELSE <<NullStr, NullStr>>

\* Line 205 with a NULL bindPW: strdup(NULL).
StrdupOfNull(my_conn) ==
    /\ variant = "tivoli"
    /\ my_conn # 0
    /\ entry[my_conn].bindDN # NullStr
    /\ entry[my_conn].bindPW = NullStr

\* Lines 203-209 with the secret of the entry cleared once it is handed over.
rebind_dispatch_wipe(t) ==
    /\ Running /\ At(t, "lk_ret")
    /\ ~StrdupOfNull(th[t].match)
    /\ LET out == Dispatch(th[t].match) IN
         Set(t, [th[t] EXCEPT !.pc = "rb_ret", !.bindDN = out[1], !.bindPW = out[2]])
    /\ entry' = IF th[t].match # 0
                THEN [entry EXCEPT ![th[t].match].bindPW = NullStr] ELSE entry
    /\ UNCHANGED <<env, lock, nCreated, holders, xref_head,
                   poolState, cleanups, callback, crashed, hs, misuse, overlap>>

rebind_dispatch(t) ==
    /\ Running /\ At(t, "lk_ret")
    /\ ~StrdupOfNull(th[t].match)
    /\ LET out == Dispatch(th[t].match) IN
         Set(t, [th[t] EXCEPT !.pc = "rb_ret", !.bindDN = out[1], !.bindPW = out[2]])
    /\ UNCHANGED <<env, lock, nCreated, holders, xref_head, entry,
                   poolState, cleanups, callback, crashed, hs, misuse, overlap>>

\* strdup of a NULL pointer is undefined: the process faults (strlen reads
\* address 0), or, where address 0 is readable, a copy of whatever is found
\* there is handed back as the secret.
rebind_strdup_null(t) ==
    /\ Running /\ At(t, "lk_ret")
    /\ StrdupOfNull(th[t].match)
    /\ \/ crashed' = TRUE /\ th' = th
       \/ /\ crashed' = crashed
          /\ Set(t, [th[t] EXCEPT !.pc = "rb_ret",
                                  !.bindDN = entry[th[t].match].bindDN,
                                  !.bindPW = Junk])
    /\ UNCHANGED <<env, lock, nCreated, holders, xref_head, entry,
                   poolState, cleanups, callback, hs, misuse, overlap>>

\* Lines 210-217 (Tivoli, freeit # 0): the strings handed back earlier are
\* freed; nothing of the registry is read.
rebind_freeit(t) ==
    /\ Running /\ At(t, "idle") /\ t \in actors
    /\ variant = "tivoli"
    /\ \E ld \in callback \cap handles[t] :
          Set(t, [Idle EXCEPT !.pc = "rb_ret", !.ld = ld, !.caller = "freeit",
                              !.snap = Registry])
    /\ UNCHANGED <<env, lock, nCreated, holders, xref_head, entry,
                   poolState, cleanups, callback, crashed, hs, misuse, overlap>>

\* Lines 219, 251: the procedure returns to the SDK.
rebind_return(t) ==
    /\ Running /\ At(t, "rb_ret")
    /\ Set(t, Idle)
    /\ entry' = Scrub(entry, xref_head, th')
    /\ UNCHANGED <<env, lock, nCreated, holders, xref_head,
                   poolState, cleanups, callback, crashed, hs, misuse, overlap>>

LDAP_rebindproc(t) ==
    \/ rebind_call(t) \/ apr_ldap_rebind_lookup(t) \/ rebind_dispatch(t)
    \/ rebind_strdup_null(t) \/ rebind_freeit(t) \/ rebind_return(t)

\* ------------------------------------------------ reads of freed memory

\* The entries the next statement of thread t dereferences.
Deref(t) ==
    CASE At(t, "rm_scan") -> {th[t].tmp_xref}
      [] At(t, "rm_unlink") ->
            {th[t].tmp_xref, IF th[t].tmp_xref = xref_head THEN xref_head ELSE th[t].prev}
      [] At(t, "rm_kill") -> {th[t].tmp_xref}
      [] At(t, "lk_scan") -> {th[t].tmp_xref}
      [] At(t, "lk_ret") -> {th[t].match}
      [] OTHER -> {}

\* Thread t is about to use an entry whose pool has been destroyed.
UseAfterFree(t) == \E e \in Deref(t) : Freed(e)

\* Such a use is undefined. Either the stale bytes are still there, and the
\* statement runs as written above, or the process faults.
fault(t) ==
    /\ Running
    /\ UseAfterFree(t)
    /\ crashed' = TRUE
    /\ UNCHANGED <<env, lock, nCreated, holders, xref_head, entry,
                   poolState, cleanups, callback, th, hs, misuse, overlap>>

\* ------------------------------------------------ apr_ldap_rebind_init

InInit(u) == th[u].pc \in {"init_test", "init_create", "init_ret"}

init_call(t) ==
    /\ Running /\ At(t, "idle") /\ t \in actors
    /\ Set(t, [Idle EXCEPT !.pc = "init_test"])
    /\ overlap' = (overlap \/ \E u \in Threads \ {t} : InInit(u))
    /\ UNCHANGED <<env, lock, nCreated, holders, xref_head, entry,
                   poolState, cleanups, callback, crashed, hs, misuse>>

\* Line 60 left out: the mutex is created on every call.
init_test_missing(t) ==
    /\ Running /\ At(t, "init_test")
    /\ Goto(t, "init_create")
    /\ UNCHANGED <<env, lock, nCreated, holders, xref_head, entry,
                   poolState, cleanups, callback, crashed, hs, misuse, overlap>>

\* Line 60: if (apr_ldap_xref_lock == NULL).
init_test(t) ==
    /\ Running /\ At(t, "init_test")
    /\ IF lock = 0 THEN Goto(t, "init_create") ELSE Goto(t, "init_ret")
    /\ UNCHANGED <<env, lock, nCreated, holders, xref_head, entry,
                   poolState, cleanups, callback, crashed, hs, misuse, overlap>>

\* Line 61: apr_thread_mutex_create stores a new mutex in apr_ldap_xref_lock
\* and returns APR_SUCCESS, or fails and leaves the variable as it is.
init_create(t) ==
    /\ Running /\ At(t, "init_create")
    /\ \/ /\ nCreated' = nCreated + 1
          /\ lock' = nCreated + 1
          /\ Set(t, [th[t] EXCEPT !.pc = "init_ret", !.retcode = "APR_SUCCESS"])
       \/ /\ UNCHANGED <<nCreated, lock>>
          /\ Set(t, [th[t] EXCEPT !.pc = "init_ret", !.retcode = "APR_ENOMEM"])
    /\ UNCHANGED <<env, holders, xref_head, entry,
                   poolState, cleanups, callback, crashed, hs, misuse, overlap>>

\* Line 65.
init_return(t) ==
    /\ Running /\ At(t, "init_ret")
    /\ Set(t, Idle)
    /\ UNCHANGED <<env, lock, nCreated, holders, xref_head, entry,
                   poolState, cleanups, callback, crashed, hs, misuse, overlap>>

apr_ldap_rebind_init(t) == init_call(t) \/ init_test(t) \/ init_create(t) \/ init_return(t)

\* ------------------------------------------------ specifications

TypeOK ==
    /\ variant \in Variants
    /\ lock \in 0 .. Cardinality(Threads) /\ nCreated \in 0 .. Cardinality(Threads)
    /\ holders \subseteq Threads
    /\ xref_head \in 0 .. MaxSlots /\ slots \in 1 .. MaxSlots
    /\ DOMAIN entry = EntryIds
    /\ \A p \in Pools : poolState[p] \in {"live", "destroying", "dead"}
    /\ callback \subseteq Handles
    /\ crashed \in BOOLEAN /\ misuse \in BOOLEAN /\ overlap \in BOOLEAN
    /\ DOMAIN th = Threads
    /\ \A h \in Handles :
          hs[h].st \in {"free", "adding", "reg", "removing", "tearing", "torn"}

\* The registry once apr_ldap_rebind_init has run, alone, at start-up: the
\* mutex exists, the list is empty, every pool is live.
Started ==
    /\ variant \in Variants
    /\ lock = 1 /\ nCreated = 1
    /\ holders = {}
    /\ xref_head = 0
    /\ entry = [e \in EntryIds |-> apr_ldap_rebind_entry]
    /\ poolState = [p \in Pools |-> "live"]
    /\ cleanups = [p \in Pools |-> <<>>]
    /\ callback = {}
    /\ crashed = FALSE
    /\ th = [t \in Threads |-> Idle]
    /\ hs = [h \in Handles |-> HsFree]
    /\ misuse = FALSE /\ overlap = FALSE
    /\ slots = MaxEntries

Next ==
    \E t \in Threads :
        \/ apr_ldap_rebind_add(t)
        \/ apr_ldap_rebind_remove(t)
        \/ apr_pool_destroy(t)
        \/ LDAP_rebindproc(t)
        \/ fault(t)

\* Two threads share one pool and one handle, registered with an identity
\* and no secret.
Init ==
    /\ Started
    /\ actors = Threads
    /\ scopes = [t \in Threads |-> {"p1"}]
    /\ handles = [t \in Threads |-> {"ld1"}]
    /\ creds = { <<"cn=b", NullStr>> }

Spec == Init /\ [][Next]_vars

\* A statement of a call that thread t has started, the return included.
Continue(t) ==
    /\ th[t].pc # "idle"
    /\ \/ apr_ldap_rebind_add(t) \/ apr_ldap_rebind_remove(t)
       \/ apr_pool_destroy(t) \/ LDAP_rebindproc(t)

\* The calls of apr_thread_mutex_lock: lines 87, 120, 163.
LockStep(t) == add_lock(t) \/ rm_lock(t) \/ lk_lock(t)

\* Fair scheduling: a thread inside a call is not left out for ever, and a
\* thread that waits for the mutex gets it when the mutex is free again and
\* again.
Fairness == \A t \in Threads : WF_vars(Continue(t)) /\ SF_vars(LockStep(t))

SpecFair == Init /\ [][Next]_vars /\ Fairness

\* One thread: no two calls overlap.
InitSeq ==
    /\ Started
    /\ actors = {"t1"}
    /\ scopes = [t \in Threads |-> Pools]
    /\ handles = [t \in Threads |-> Handles]
    /\ creds = { <<"cn=a", "pwa">>, <<"cn=b", NullStr>>, <<NullStr, "pwc">> }

SpecSeq == InitSeq /\ [][Next]_vars

\* Two threads, each with a handle and a pool of its own, add, remove and
\* look up; no pool is destroyed.
InitOwn ==
    /\ Started
    /\ actors = Threads
    /\ scopes = [t \in Threads |-> IF t = "t1" THEN {"p1"} ELSE {"p2"}]
    /\ handles = [t \in Threads |-> IF t = "t1" THEN {"ld1"} ELSE {"ld2"}]
    /\ creds = { <<"cn=a", "pwa">>, <<"cn=b", NullStr>> }

NextOwn ==
    \E t \in Threads :
        \/ apr_ldap_rebind_add(t)
        \/ apr_ldap_rebind_remove(t)
        \/ LDAP_rebindproc(t)

SpecOwn == InitOwn /\ [][NextOwn]_vars

\* One thread adds and removes, in two pools, lists of up to MaxSlots
\* entries: an entry can be removed from between two others.
InitList ==
    /\ variant \in Variants
    /\ lock = 1 /\ nCreated = 1
    /\ holders = {}
    /\ xref_head = 0
    /\ entry = [e \in EntryIds |-> apr_ldap_rebind_entry]
    /\ poolState = [p \in Pools |-> "live"]
    /\ cleanups = [p \in Pools |-> <<>>]
    /\ callback = {}
    /\ crashed = FALSE
    /\ th = [t \in Threads |-> Idle]
    /\ hs = [h \in Handles |-> HsFree]
    /\ misuse = FALSE /\ overlap = FALSE
    /\ actors = {"t1"}
    /\ scopes = [t \in Threads |-> Pools]
    /\ handles = [t \in Threads |-> Handles]
    /\ creds = { <<"cn=a", "pwa">> }
    /\ slots = MaxSlots

NextList ==
    \E t \in Threads :
        \/ apr_ldap_rebind_add(t)
        \/ apr_ldap_rebind_remove(t)

SpecList == InitList /\ [][NextList]_vars

\* The process before any call of apr_ldap_rebind_init: line 36.
InitStart ==
    /\ variant \in Variants
    /\ lock = 0 /\ nCreated = 0
    /\ holders = {}
    /\ xref_head = 0
    /\ entry = [e \in EntryIds |-> apr_ldap_rebind_entry]
    /\ poolState = [p \in Pools |-> "live"]
    /\ cleanups = [p \in Pools |-> <<>>]
    /\ callback = {}
    /\ crashed = FALSE
    /\ th = [t \in Threads |-> Idle]
    /\ hs = [h \in Handles |-> HsFree]
    /\ misuse = FALSE /\ overlap = FALSE
    /\ actors = Threads
    /\ scopes = [t \in Threads |-> Pools]
    /\ handles = [t \in Threads |-> Handles]
    /\ creds = Creds
    /\ slots = MaxEntries

NextInit == \E t \in Threads : apr_ldap_rebind_init(t)

SpecInit == InitStart /\ [][NextInit]_vars


\* ------------------------------------------------ properties

\* The entries of the list, as a set, and the handles they are filed under.
Listed == {List[i] : i \in 1 .. Len(List)}

ListedHandles == {entry[e].index : e \in Listed}

\* No two positions of the list hold an entry for the same handle.
NoDup ==
    \A i, j \in 1 .. Len(List) :
        i # j => entry[List[i]].index # entry[List[j]].index

\* The chain from xref_head ends in NULL and passes no entry twice.
WellFormed ==
    /\ Cardinality(Listed) = Len(List)
    /\ (List = <<>> \/ entry[List[Len(List)]].next = 0)

\* The list of a saved view of the registry has no entry for handle ld.
AbsentIn(view, ld) == \A i \in 1 .. Len(view[1]) : view[1][i][2] # ld

\* The statements between lock and unlock that read or write xref_head or a
\* next pointer (lines 90-91, 122-135, 165-174).
ListAccess == {"add_next", "add_head", "rm_head", "rm_scan", "rm_unlink",
               "lk_head", "lk_scan"}

\* C1: while handle H is registered (its last add has succeeded and no
\* remove(H), no teardown of its scope and no further add(H) has begun), a
\* lookup of H finds an entry and that entry carries the identity and the
\* secret given to that add, an absent secret staying absent.
C1_LookupReturnsRegistered ==
    \A t \in Threads :
        (At(t, "lk_ret") /\ hs[th[t].ld].st = "reg") =>
            /\ th[t].match # 0
            /\ entry[th[t].match].index = th[t].ld
            /\ entry[th[t].match].bindDN = hs[th[t].ld].bindDN
            /\ entry[th[t].match].bindPW = hs[th[t].ld].bindPW

\* A lookup of a registered handle has found its entry behind the entry of
\* another handle, with an identity and a secret.
C1_Witness ==
    \E t \in Threads :
        /\ At(t, "lk_ret") /\ hs[th[t].ld].st = "reg"
        /\ Len(List) = 2 /\ th[t].match = List[2]
        /\ entry[th[t].match].bindDN # NullStr
        /\ entry[th[t].match].bindPW # NullStr

\* C2: a lookup of H that starts after a remove(H) has returned, with no
\* add(H) since, finds nothing, and the rebind callback then leaves both
\* outputs NULL.
C2_RemovedNotFound ==
    \A t \in Threads :
        /\ (At(t, "lk_ret") /\ th[t].gone) => th[t].match = 0
        /\ (At(t, "rb_ret") /\ th[t].gone) =>
               (th[t].bindDN = NullStr /\ th[t].bindPW = NullStr)

\* The lookups that break C2 find an entry left behind by a second add of a
\* handle that was still registered: in runs without such an add C2 holds.
RemovedNotFoundSingleAdd == ~misuse => C2_RemovedNotFound

\* C3: after the scope of a successful add(scope, H) has been torn down, with
\* no explicit remove(H), a lookup of H finds nothing. The lookups considered
\* are those made when no scope has a cleanup armed for H any more, so that
\* an entry found is not one that an add under another scope accounts for.
C3_TornDownNotFound ==
    \A t \in Threads :
        (/\ At(t, "lk_ret") /\ hs[th[t].ld].st = "torn"
         /\ \A p \in Pools : \A i \in 1 .. Len(cleanups[p]) : cleanups[p][i] # th[t].ld) =>
            th[t].match = 0

\* C4: when add returns an error, the list and the cleanups of every pool are
\* what they were when add was called.
C4_FailedAddLeavesNoTrace ==
    \A t \in Threads :
        (At(t, "add_ret") /\ th[t].retcode # "APR_SUCCESS" /\ th[t].snap # Void) =>
            Registry = th[t].snap

\* add has put its entry on the list, failed to install the callback, taken
\* the entry out again and is about to return the error.
C4_Witness ==
    \E t \in Threads :
        /\ At(t, "add_ret") /\ th[t].retcode = "APR_ENOTIMPL"
        /\ th[t].new_xref # 0 /\ th[t].snap # Void

\* C5: the list never holds two entries for the same handle.
C5_OneEntryPerHandle ==
    \A h \in Handles : Cardinality({e \in Listed : entry[e].index = h}) <= 1

\* Two entries for one handle come from an add of a handle that was still
\* registered, and from nothing else.
OneEntryPerHandleSingleAdd == ~misuse => NoDup

\* C6: no entry on the list belongs to a scope that has been torn down.
C6_NoEntryOutlivesScope ==
    \A e \in Listed : poolState[entry[e].pool] # "dead"

\* C7: a thread about to read or write xref_head or a next pointer holds the
\* lock, and at most one thread holds it.
C7_LockHeld ==
    /\ Cardinality(holders) <= 1
    /\ \A t \in Threads : th[t].pc \in ListAccess => t \in holders

\* One thread is unlinking an entry under the lock while the other waits
\* for the lock.
C7_Witness ==
    \E t, u \in Threads :
        /\ t # u /\ At(t, "rm_unlink") /\ t \in holders
        /\ th[u].pc \in {"add_lock", "rm_lock", "lk_lock"}

\* C8: with every thread working on a handle of its own, the chain from
\* xref_head ends in NULL and passes no entry twice and, once all operations
\* have completed, the list holds exactly the handles whose last operation
\* was a successful add (an add that returned APR_ENOMEM before storing
\* anything counts as no operation).
C8_DisjointHandles ==
    /\ WellFormed
    /\ (\A t \in Threads : At(t, "idle")) =>
           ListedHandles = {h \in Handles : hs[h].st = "reg"}

\* The final list differs from the handles last added only in runs in which
\* a thread added its handle while that handle was still registered.
DisjointHandlesSingleAdd == ~misuse => (C8_DisjointHandles /\ NoDup)

\* C9 (as stated): however calls of init interleave, the lock is created at
\* most once and the first lock is never replaced.
C9_LockCreatedOnce ==
    /\ nCreated <= 1
    /\ lock \in {0, 1}

\* C9 (amended): the lock is created at most once, is never replaced, and
\* exists when init reports success, provided no call of init began while
\* another was in progress.
C9_LockCreatedOnceSerial ==
    ~overlap =>
        /\ C9_LockCreatedOnce
        /\ \A t \in Threads :
               (At(t, "init_ret") /\ th[t].retcode = "APR_SUCCESS") =>
                   (lock = 1 /\ nCreated = 1)

\* The lock has been created by an earlier call of init, no two calls have
\* overlapped, and a later call is about to test the lock.
C9_Witness ==
    \E t \in Threads :
        /\ ~overlap /\ nCreated = 1 /\ lock = 1
        /\ At(t, "init_test")

\* C10: a remove of a handle that had no entry when it was called returns
\* success and leaves the list and the cleanups of every pool unchanged.
C10_RemoveAbsentNoOp ==
    \A t \in Threads :
        (/\ At(t, "rm_ret") /\ th[t].caller = "top" /\ th[t].snap # Void
         /\ AbsentIn(th[t].snap, th[t].ld)) =>
            /\ Registry = th[t].snap
            /\ th[t].retcode = "APR_SUCCESS"

\* A remove of a handle without entry has scanned past the entry of another
\* handle and is about to return.
C10_Witness ==
    \E t \in Threads :
        /\ At(t, "rm_ret") /\ th[t].caller = "top" /\ th[t].snap # Void
        /\ AbsentIn(th[t].snap, th[t].ld)
        /\ Len(List) >= 1 /\ th[t].prev # 0


\* Thread t has the entry that lookup found for a rebind event, the entry is
\* in live memory, and its bindDN or its bindPW is NULL.
AbsentCredential(t) ==
    /\ At(t, "lk_ret") /\ th[t].caller = "rebind"
    /\ th[t].match # 0 /\ ~Freed(th[t].match)
    /\ (entry[th[t].match].bindDN = NullStr \/ entry[th[t].match].bindPW = NullStr)

\* C11: a rebind event whose entry has an absent DN or an absent secret
\* never faults the process: whichever of the two is absent, the step that
\* follows lookup's return leaves the process running.
C11_AbsentCredentialsNoCrash ==
    [][\A t \in Threads : AbsentCredential(t) => ~crashed']_vars

\* C12: a rebind event hands the SDK exactly the bindDN and the bindPW of the
\* entry that lookup found when that entry's bindDN is not NULL, and NULL for
\* both when lookup found nothing or the entry's bindDN is NULL.
C12_DispatchesEntry ==
    \A t \in Threads :
        (/\ At(t, "rb_ret") /\ th[t].caller = "rebind"
         /\ ~Freed(th[t].match)) =>
            <<th[t].bindDN, th[t].bindPW>> =
                IF th[t].match # 0 /\ entry[th[t].match].bindDN # NullStr
                THEN <<entry[th[t].match].bindDN, entry[th[t].match].bindPW>>
                ELSE <<NullStr, NullStr>>

\* C13: when the copy of bindDN or of bindPW cannot be allocated during add,
\* add gives APR_ENOMEM back to its caller, the process goes on, and the
\* registry is as it was before the call.
C13_StrdupFailureReturnsEnomem ==
    \A t \in Threads :
        th[t].pc = "add_strdup" =>
            /\ ~crashed
            /\ th[t].retcode = "APR_ENOMEM"
            /\ Registry = th[t].snap

\* No call of add or remove and no pool destruction is under way: every
\* thread is between calls or inside a lookup.
NoAddOrRemove ==
    \A t \in Threads :
        th[t].pc \in {"idle", "lk_lock", "lk_head", "lk_scan", "lk_unlock",
                      "lk_ret", "rb_ret"}

\* The cleanups armed on pool p for handle ld.
Armed(p, ld) == Cardinality({i \in 1 .. Len(cleanups[p]) : cleanups[p][i] = ld})

\* Every entry on the list has exactly one cleanup armed for its handle on its
\* pool, and every armed cleanup has its entry on the list.
Paired ==
    /\ \A e \in Listed :
          entry[e].pool \in Pools /\ Armed(entry[e].pool, entry[e].index) = 1
    /\ \A p \in Pools : \A i \in 1 .. Len(cleanups[p]) :
          \E e \in Listed : entry[e].pool = p /\ entry[e].index = cleanups[p][i]

\* C14: whenever no add and no remove is under way, entries and armed
\* cleanups are paired one to one.
C14_CleanupPaired == NoAddOrRemove => Paired

\* With one thread, the pairing is lost only after an add of a handle that
\* was still registered. With two threads it is also lost when remove(H) runs
\* between lines 94 and 107 of an add of H: the cleanup is then armed for an
\* entry that is gone.
CleanupPairedSingleAdd == (~misuse /\ NoAddOrRemove) => Paired

\* The entries of a list view that are for handle ld, in list order.
EntriesFor(view, ld) == SelectSeq(view, LAMBDA x : x[2] = ld)

\* The first entry on the list for handle ld, NULL (0) when there is none.
FirstFor(ld) ==
    IF \E i \in 1 .. Len(List) : entry[List[i]].index = ld
    THEN List[CHOOSE i \in 1 .. Len(List) :
                 /\ entry[List[i]].index = ld
                 /\ \A j \in 1 .. i - 1 : entry[List[j]].index # ld]
    ELSE 0

\* C15: with several entries for one handle on the list, the one of the most
\* recent add is ahead of the older ones (add puts its entry in front of the
\* list it found), lookup returns the first entry of the handle, and one
\* remove takes away that first entry only, so that the next most recent one
\* is the first afterwards.
C15_MostRecentWins ==
    \A t \in Threads :
        /\ (At(t, "add_unlock") /\ th[t].snap # Void) =>
              /\ List # <<>> /\ List[1] = th[t].new_xref
              /\ Tail(ListView) = th[t].snap[1]
        /\ (At(t, "lk_ret") /\ th[t].caller = "rebind") =>
              th[t].match = FirstFor(th[t].ld)
        /\ (At(t, "rm_ret") /\ th[t].caller = "top" /\ th[t].snap # Void
            /\ EntriesFor(th[t].snap[1], th[t].ld) # <<>>) =>
              EntriesFor(ListView, th[t].ld) = Tail(EntriesFor(th[t].snap[1], th[t].ld))

\* A remove is about to return that found two different entries of its handle
\* on the list and has left exactly the second, older one.
C15_Witness ==
    \E t \in Threads :
        /\ At(t, "rm_ret") /\ th[t].caller = "top" /\ th[t].snap # Void
        /\ Len(EntriesFor(th[t].snap[1], th[t].ld)) = 2
        /\ EntriesFor(th[t].snap[1], th[t].ld)[1] # EntriesFor(th[t].snap[1], th[t].ld)[2]
        /\ EntriesFor(ListView, th[t].ld) = <<EntriesFor(th[t].snap[1], th[t].ld)[2]>>

\* The statements between a lock and its unlock: lines 88-94, 121-145, 164-178.
Locked == {"add_next", "add_head", "add_unlock",
           "rm_head", "rm_scan", "rm_unlink", "rm_kill", "rm_unlock",
           "lk_head", "lk_scan", "lk_unlock"}

\* A thread holds the mutex exactly between a lock and its unlock: it does not
\* hold it when it calls lock, and not when it returns.
LockDiscipline == \A t \in Threads : t \in holders <=> th[t].pc \in Locked

\* C16: every path that takes the mutex gives it back before it returns and
\* never takes it again while holding it, and under fair scheduling every
\* call that was started (add, remove, lookup, rebind event) returns.
C16_NoDeadlock ==
    /\ []LockDiscipline
    /\ \A t \in Threads : (th[t].pc # "idle") ~> (th[t].pc = "idle")

\* The mutex itself never stops a call: under fair scheduling a started call
\* returns unless the process has faulted.
ReturnsUnlessFaulted ==
    /\ []LockDiscipline
    /\ \A t \in Threads : (th[t].pc # "idle") ~> (th[t].pc = "idle" \/ crashed)

\* C17: when the rebind procedure is about to read bindDN and bindPW of the
\* entry that lookup returned, that entry is still on the list and its pool
\* has not been destroyed.
C17_EntryValidWhenRead ==
    \A t \in Threads :
        (At(t, "lk_ret") /\ th[t].caller = "rebind" /\ th[t].match # 0) =>
            /\ InList(th[t].match)
            /\ ~Freed(th[t].match)

\* C18: add stores its entry (line 91) before it installs the callback (line
\* 101) and arms the cleanup (line 107). When an add has installed the
\* callback and no other thread has changed the registry since that add
\* began, its entry is the first on the list; and a rebind event of the
\* handle that began after the entry was stored, with no change of the
\* registry since, gets that entry from lookup, with the credentials passed
\* to add, and not NULL.
C18_EntryBeforeCallback ==
    \A u \in Threads :
        (At(u, "add_register") /\ th[u].snap # Void) =>
            /\ th[u].ld \in callback
            /\ List # <<>> /\ List[1] = th[u].new_xref
            /\ \A t \in Threads \ {u} :
                  (/\ At(t, "lk_ret") /\ th[t].caller = "rebind"
                   /\ th[t].ld = th[u].ld /\ th[t].snap # Void) =>
                      /\ th[t].match = th[u].new_xref
                      /\ entry[th[t].match].bindDN = th[u].bindDN
                      /\ entry[th[t].match].bindPW = th[u].bindPW

\* A rebind event that began between lines 101 and 107 of an add of its
\* handle has the entry of that add from lookup.
C18_Witness ==
    \E u \in Threads, t \in Threads :
        /\ t # u
        /\ At(u, "add_register") /\ th[u].snap # Void
        /\ At(t, "lk_ret") /\ th[t].caller = "rebind"
        /\ th[t].ld = th[u].ld /\ th[t].snap # Void
        /\ th[t].match # 0

\* Thread t is inside the rebind procedure, lookup included, and no other
\* thread has changed the registry since the procedure was called.
InRebind(t) ==
    /\ th[t].pc # "idle"
    /\ th[t].caller \in {"rebind", "freeit"}
    /\ th[t].snap # Void

\* C19: the rebind procedure, in both variants, when it looks the entry up and
\* when it is asked to free what it handed out, leaves the list, the
\* credentials of every entry and the armed cleanups as they were when it was
\* called.
C19_RebindLeavesRegistry ==
    \A t \in Threads : InRebind(t) => Registry = th[t].snap

\* A rebind event is about to return with the credentials of an entry that
\* has a secret, and a cleanup is armed.
C19_Witness ==
    \E t \in Threads :
        /\ InRebind(t) /\ At(t, "rb_ret") /\ th[t].caller = "rebind"
        /\ th[t].match # 0 /\ entry[th[t].match].bindPW # NullStr
        /\ \E p \in Pools : cleanups[p] # <<>>

\* A list view without its first entry for handle ld.
RECURSIVE WithoutFirst(_, _)
WithoutFirst(view, ld) ==
    IF view = <<>> THEN <<>>
    ELSE IF Head(view)[2] = ld THEN Tail(view)
    ELSE <<Head(view)>> \o WithoutFirst(Tail(view), ld)

\* The pool of the first entry for handle ld in a list view that has one.
FirstPool(view, ld) == EntriesFor(view, ld)[1][1]

\* C20: remove(H) takes the first entry of H off the list, wherever it is, and
\* nothing else: every other entry is still there with its pool, handle and
\* credentials, in the same order, and the only cleanup disarmed is the one
\* of the entry taken off.
C20_RemoveOnlyFirst ==
    \A t \in Threads :
        (/\ At(t, "rm_ret") /\ th[t].caller = "top" /\ th[t].snap # Void
         /\ ~AbsentIn(th[t].snap, th[t].ld)) =>
            /\ ListView = WithoutFirst(th[t].snap[1], th[t].ld)
            /\ \A p \in Pools :
                  cleanups[p] = IF p = FirstPool(th[t].snap[1], th[t].ld)
                                THEN CleanupKill(th[t].snap[2][p], th[t].ld)
                                ELSE th[t].snap[2][p]

\* A remove is about to return that took an entry from between two entries
\* of another handle.
C20_Witness ==
    \E t \in Threads :
        /\ At(t, "rm_ret") /\ th[t].caller = "top" /\ th[t].snap # Void
        /\ Len(th[t].snap[1]) = 3
        /\ th[t].snap[1][1][2] # th[t].ld
        /\ th[t].snap[1][2][2] = th[t].ld
        /\ th[t].snap[1][3][2] # th[t].ld
        /\ Len(List) = 2

====
